---- MODULE Spec2Model ----
(***************************************************************************)
(* A model of two layers of the Q&A application:                           *)
(*   - the tag repository (tagRepo), a set of queries and updates on the   *)
(*     "tag" table issued through the xorm object-relational mapper;       *)
(*   - the activity service (ActivityService), which renders the timeline  *)
(*     of an object and the before/after detail of two revisions.          *)
(*                                                                         *)
(* Strings that the code matches with LIKE or orders are sequences of      *)
(* one-character strings ("go" is <<"g","o">>); activity type keys are     *)
(* sequences of tokens in which the separator "." is a token of its own.   *)
(***************************************************************************)
EXTENDS Integers, Sequences, FiniteSets, TLC

VARIABLES
    tags,         \* the tag table: a function from the ids issued so far to rows
    nextID,       \* the unique-id generator's next identifier
    requiredTag,  \* the site-wide "tag required" setting (siteinfo write config)
    activityList, \* the stored activities of the object, in stored order
    op,           \* the last call: its name and the arguments the properties refer to
    result        \* what the last call returned

vars == <<tags, nextID, requiredTag, activityList, op, result>>

(***************************************************************************)
(* Bounds of the model.                                                    *)
(***************************************************************************)
\* the unique-id generator stops issuing ids after this many
MaxID == 3
\* question counts written by UpdateTagQuestionCount range over 0..MaxCount
MaxCount == 1
\* the object has at most this many stored activities
MaxActs == 3

(***************************************************************************)
(* Strings.                                                                *)
(***************************************************************************)
Alphabet == <<"a", "b", "f", "g", "o", "x">>

CharOrd(c) == CHOOSE i \in 1..Len(Alphabet) : Alphabet[i] = c

\* byte-wise string comparison, as the store orders a VARCHAR column
RECURSIVE StrLess(_, _)
StrLess(a, b) ==
    IF b = <<>> THEN FALSE
    ELSE IF a = <<>> THEN TRUE
    ELSE IF Head(a) = Head(b) THEN StrLess(Tail(a), Tail(b))
    ELSE CharOrd(Head(a)) < CharOrd(Head(b))

\* SQL LIKE: "%" matches any run of characters, "_" any one character
RECURSIVE Like(_, _)
Like(s, pattern) ==
    IF pattern = <<>> THEN s = <<>>
    ELSE IF Head(pattern) = "%"
         THEN Like(s, Tail(pattern)) \/ (s # <<>> /\ Like(Tail(s), pattern))
    ELSE /\ s # <<>>
         /\ (Head(pattern) = "_" \/ Head(pattern) = Head(s))
         /\ Like(Tail(s), Tail(pattern))

\* builder.Like{col, v}: the value is wrapped in "%" unless it already starts
\* or ends with one
BuilderLike(s, v) ==
    IF v # <<>> /\ (v[1] = "%" \/ v[Len(v)] = "%")
    THEN Like(s, v)
    ELSE Like(s, <<"%">> \o v \o <<"%">>)

HasPrefix(s, p) == Len(p) <= Len(s) /\ SubSeq(s, 1, Len(p)) = p

Contains(s, p) ==
    \E i \in 0..(Len(s) - Len(p)) : SubSeq(s, i + 1, i + Len(p)) = p

(***************************************************************************)
(* The tag table.                                                          *)
(***************************************************************************)
TagStatusAvailable == 1
TagStatusDeleted == 10

Columns ==
    {"id", "slugName", "displayName", "mainTagID", "mainTagSlugName",
     "recommend", "reserved", "status", "questionCount", "revisionID",
     "createdAt"}

StrCols == {"slugName", "displayName", "mainTagSlugName"}
BoolCols == {"recommend", "reserved"}

\* &entity.Tag{}: every field at its zero value
ZeroTag ==
    [id |-> 0, slugName |-> <<>>, displayName |-> <<>>, mainTagID |-> 0,
     mainTagSlugName |-> <<>>, recommend |-> FALSE, reserved |-> FALSE,
     status |-> 0, questionCount |-> 0, revisionID |-> 0, createdAt |-> 0]

IsZero(col, v) ==
    IF col \in StrCols THEN v = <<>>
    ELSE IF col \in BoolCols THEN v = FALSE
    ELSE v = 0

ColLess(col, x, y) ==
    IF col \in StrCols THEN StrLess(x, y)
    ELSE IF col \in BoolCols THEN x = FALSE /\ y = TRUE
    ELSE x < y

Rows(t) == {t[i] : i \in DOMAIN t}

\* xorm builds the condition of Find(&rows, bean) / Get(bean) from the bean:
\* a column takes part when it is not at its zero value, or when MustCols /
\* UseBool names it; a bool column takes part only when named
CondCols(bean, mustCols) ==
    {c \in Columns : c \in mustCols \/ (c \notin BoolCols /\ ~IsZero(c, bean[c]))}

\* the rows of S that satisfy the condition built from the bean
MatchBean(S, bean, mustCols) ==
    LET cols == CondCols(bean, mustCols)
    IN  {r \in S : \A c \in cols : r[c] = bean[c]}

\* xorm's Update(bean): the columns written are the non-zero ones and the
\* ones MustCols / UseBool names; Cols(...) restricts the statement to the
\* columns it names; the autoincrement key and created_at are never written
UpdateCols(bean, mustCols, onlyCols) ==
    LET auto == {c \in Columns : c \in mustCols \/ (c \notin BoolCols /\ ~IsZero(c, bean[c]))}
        cols == IF onlyCols = {} THEN auto ELSE onlyCols
    IN  cols \ {"id", "createdAt"}

ApplyUpdate(row, bean, cols) ==
    [c \in Columns |-> IF c \in cols THEN bean[c] ELSE row[c]]

\* UPDATE ... WHERE sel: every selected row gets the columns; a statement
\* that would give two rows the same slug name violates the unique index and
\* changes nothing
UpdateWhere(t, sel, bean, cols) ==
    [i \in DOMAIN t |-> IF i \in sel THEN ApplyUpdate(t[i], bean, cols) ELSE t[i]]

UniqueSlugs(t) ==
    \A i, j \in DOMAIN t : i # j => t[i].slugName # t[j].slugName

(***************************************************************************)
(* ORDER BY and LIMIT.                                                     *)
(***************************************************************************)
\* a is strictly before b under the ORDER BY terms order = <<<<col, dir>>, ...>>
RECURSIVE Before(_, _, _)
Before(order, a, b) ==
    IF order = <<>> THEN FALSE
    ELSE LET col == Head(order)[1]
             asc == Head(order)[2] = "asc"
         IN  IF a[col] = b[col] THEN Before(Tail(order), a, b)
             ELSE IF asc THEN ColLess(col, a[col], b[col])
             ELSE ColLess(col, b[col], a[col])

\* every sequence of the rows of S the store may return under the ORDER BY:
\* rows the terms do not separate come in any order
RECURSIVE Ordered(_, _)
Ordered(S, order) ==
    IF S = {} THEN {<<>>}
    ELSE UNION {{<<m>> \o rest : rest \in Ordered(S \ {m}, order)} :
                m \in {x \in S : \A y \in S : ~Before(order, y, x)}}

\* LIMIT limit OFFSET start
Limit(rows, limit, start) ==
    SubSeq(rows, start + 1, IF start + limit < Len(rows) THEN start + limit ELSE Len(rows))

(***************************************************************************)
(* The site configuration and the read-time masking of "recommend".        *)
(***************************************************************************)
\* a tagRecommendStatus that takes the setting for on when it cannot be read
tagRecommendStatusOnByDefault(siteErr, required) ==
    IF siteErr THEN TRUE ELSE required

\* tagRecommendStatus: the "tag required" setting, false when the site
\* configuration cannot be read
tagRecommendStatus(siteErr, required) ==
    IF siteErr THEN FALSE ELSE required

\* the loop every read ends with: recommend is cleared on every returned row
\* when tagRecommendStatus is false
MaskRecommend(rows, status) ==
    IF ~status
    THEN [i \in DOMAIN rows |-> [rows[i] EXCEPT !.recommend = FALSE]]
    ELSE rows

(***************************************************************************)
(* The queries: each gives the set of row sequences the store may return.  *)
(***************************************************************************)
ByRecommendReservedID ==
    <<<<"recommend", "desc">>, <<"reserved", "desc">>, <<"id", "desc">>>>

\* session.Get: LIMIT 1 over the matching rows
First(S) == IF S = {} THEN {<<>>} ELSE {<<r>> : r \in S}

GetTagListByIDsQuery(t, ids) ==
    Ordered({r \in Rows(t) : r.id \in ids /\ r.status = TagStatusAvailable},
            ByRecommendReservedID)

GetTagBySlugNameQuery(t, slugName) ==
    First({r \in Rows(t) : r.slugName = slugName /\ r.status = TagStatusAvailable})

\* a GetTagByID without the status restriction
GetTagByIDQueryAnyStatus(t, tagID) ==
    First({r \in Rows(t) : r.id = tagID})

GetTagByIDQuery(t, tagID) ==
    First({r \in Rows(t) : r.id = tagID /\ r.status = TagStatusAvailable})

\* a GetTagListByName that never names "reserved" in UseBool, so that the
\* zero value of cond.Reserved is no condition
GetTagListByNameQueryReservedUnused(t, name, limit, hasReserved) ==
    LET cond == [ZeroTag EXCEPT !.recommend = (name = <<>>), !.reserved = FALSE]
        S == MatchBean({r \in Rows(t) :
                          /\ name # <<>> => Like(r.slugName, name \o <<"%">>)
                          /\ r.status = TagStatusAvailable},
                       cond, {"recommend"})
    IN  {Limit(rows, limit, 0) :
            rows \in Ordered(S, <<<<"slugName", "asc">>>> \o ByRecommendReservedID)}

GetTagListByNameQuery(t, name, limit, hasReserved) ==
    LET cond == [ZeroTag EXCEPT !.recommend = (name = <<>>), !.reserved = FALSE]
        must == IF ~hasReserved THEN {"recommend", "reserved"} ELSE {"recommend"}
        S == MatchBean({r \in Rows(t) :
                          /\ name # <<>> => Like(r.slugName, name \o <<"%">>)
                          /\ r.status = TagStatusAvailable},
                       cond, must)
    IN  {Limit(rows, limit, 0) :
            rows \in Ordered(S, <<<<"slugName", "asc">>>> \o ByRecommendReservedID)}

GetRecommendTagListQuery(t) ==
    LET cond == [ZeroTag EXCEPT !.recommend = TRUE]
    IN  Ordered(MatchBean(Rows(t), cond, {"recommend"}),
                <<<<"slugName", "asc">>>>)

GetReservedTagListQuery(t) ==
    LET cond == [ZeroTag EXCEPT !.reserved = TRUE]
    IN  Ordered(MatchBean(Rows(t), cond, {"reserved"}),
                <<<<"slugName", "asc">>>>)

GetTagListByNamesQuery(t, names) ==
    Ordered({r \in Rows(t) : r.slugName \in names}, ByRecommendReservedID)

GetTagListQuery(t, tag) ==
    Ordered(MatchBean({r \in Rows(t) : r.status = TagStatusAvailable}, tag, {}), <<>>)

\* a GetTagPage that does not exclude synonyms
TagPageFilterWithSynonyms(S, tag) ==
    MatchBean({r \in S :
                 /\ tag.slugName # <<>> =>
                       \/ BuilderLike(r.slugName, tag.slugName)
                       \/ BuilderLike(r.displayName, tag.slugName)
                 /\ r.status = TagStatusAvailable},
              [tag EXCEPT !.slugName = <<>>], {})

\* the WHERE clause of GetTagPage: the slug name of the filter is matched with
\* LIKE against both names and then cleared, so that it is no equality term
TagPageFilter(S, tag) ==
    MatchBean({r \in S :
                 /\ tag.slugName # <<>> =>
                       \/ BuilderLike(r.slugName, tag.slugName)
                       \/ BuilderLike(r.displayName, tag.slugName)
                 /\ r.status = TagStatusAvailable
                 /\ r.mainTagID = 0},
              [tag EXCEPT !.slugName = <<>>], {})

\* the ORDER BY of GetTagPage
TagPageOrder(queryCond) ==
    IF queryCond = "popular" THEN <<<<"questionCount", "desc">>>>
    ELSE IF queryCond = "name" THEN <<<<"slugName", "asc">>>>
    ELSE IF queryCond = "newest" THEN <<<<"createdAt", "desc">>>>
    ELSE <<>>

\* pager.Help: page and page size default to 1 and 10 when not positive; the
\* page is rows (page-1)*pageSize+1 .. page*pageSize of the ordered listing
DefaultPageSize == 10

PagerHelp(rows, page, pageSize) ==
    LET p  == IF page <= 0 THEN 1 ELSE page
        ps == IF pageSize <= 0 THEN DefaultPageSize ELSE pageSize
    IN  Limit(rows, ps, (p - 1) * ps)

GetTagPageQuery(t, page, pageSize, tag, queryCond) ==
    {PagerHelp(rows, page, pageSize) :
        rows \in Ordered(TagPageFilter(Rows(t), tag), TagPageOrder(queryCond))}

GetTagPageTotal(t, tag) ==
    Cardinality(TagPageFilter(Rows(t), tag))

(***************************************************************************)
(* The updates: each gives the table after the statement.                  *)
(***************************************************************************)
\* AddTagList: every item gets a fresh id and revision "0"; one INSERT
AddTagListRows(tagList, firstID) ==
    [i \in 1..Len(tagList) |->
        [tagList[i] EXCEPT !.id = firstID + i - 1, !.revisionID = 0,
                           !.createdAt = firstID]]

InsertRows(t, rows) ==
    [i \in DOMAIN t \cup {rows[k].id : k \in DOMAIN rows} |->
        IF i \in DOMAIN t THEN t[i]
        ELSE rows[CHOOSE k \in DOMAIN rows : rows[k].id = i]]

RemoveTagUpdate(t, tagID) ==
    LET bean == [ZeroTag EXCEPT !.status = TagStatusDeleted]
    IN  UpdateWhere(t, {i \in DOMAIN t : t[i].id = tagID}, bean,
                    UpdateCols(bean, {}, {}))

UpdateTagUpdate(t, tag) ==
    UpdateWhere(t, {i \in DOMAIN t : t[i].id = tag.id}, tag, UpdateCols(tag, {}, {}))

\* an UpdateTagQuestionCount without MustCols: a count of zero is the zero
\* value of the bean and is not written
UpdateTagQuestionCountUpdateNoMustCols(t, tagID, questionCount) ==
    LET cond == [ZeroTag EXCEPT !.questionCount = questionCount]
    IN  UpdateWhere(t, {i \in DOMAIN t : t[i].id = tagID}, cond,
                    UpdateCols(cond, {}, {}))

UpdateTagQuestionCountUpdate(t, tagID, questionCount) ==
    LET cond == [ZeroTag EXCEPT !.questionCount = questionCount]
    IN  UpdateWhere(t, {i \in DOMAIN t : t[i].id = tagID}, cond,
                    UpdateCols(cond, {"questionCount"}, {}))

UpdateTagSynonymUpdate(t, tagSlugNameList, mainTagID, mainTagSlugName) ==
    LET bean == [ZeroTag EXCEPT !.mainTagID = mainTagID,
                                !.mainTagSlugName = mainTagSlugName]
    IN  UpdateWhere(t, {i \in DOMAIN t : t[i].slugName \in tagSlugNameList}, bean,
                    UpdateCols(bean, {"mainTagID", "mainTagSlugName"}, {}))

UpdateTagsAttributeUpdate(t, slugs, attribute, value) ==
    IF attribute \notin {"recommend", "reserved"} THEN t
    ELSE LET bean == [ZeroTag EXCEPT ![attribute] = value]
         IN  UpdateWhere(t, {i \in DOMAIN t : t[i].slugName \in slugs}, bean,
                         UpdateCols(bean, {attribute}, {attribute}))

(***************************************************************************)
(* Inputs of the tag repository's calls.                                   *)
(***************************************************************************)
Foo == <<"f", "o", "o">>
AFoo == <<"a", "f", "o", "o">>
Go == <<"g", "o">>
Fo == <<"f", "o">>

NewTag(slugName, displayName, recommend, reserved) ==
    [ZeroTag EXCEPT !.slugName = slugName, !.displayName = displayName,
                    !.recommend = recommend, !.reserved = reserved,
                    !.status = TagStatusAvailable]

\* the tags callers add: a slug name that is "foo", a slug name that only
\* contains it, and a display name that contains it under another slug name
TagFoo == NewTag(Foo, Fo, TRUE, FALSE)
TagAFoo == NewTag(AFoo, <<"a", "b">>, FALSE, TRUE)
TagGo == NewTag(Go, <<"x", "f", "o", "o">>, TRUE, TRUE)

\* the batches callers add; adding a batch twice runs into the unique index
NewTagLists == {<<TagFoo>>, <<TagAFoo, TagGo>>}

SlugNames == {Foo, AFoo, Go}

\* ids a caller may name: every id issued so far, and one never issued
KnownIDs == (DOMAIN tags) \cup {nextID}

NoResult == [rows |-> <<>>, exist |-> FALSE, total |-> 0, err |-> FALSE]

(***************************************************************************)
(* The site administrator changes the "tag required" setting.              *)
(***************************************************************************)
SetSiteWrite ==
    /\ requiredTag' = ~requiredTag
    /\ op' = [name |-> "SetSiteWrite", args |-> <<>>, siteErr |-> FALSE]
    /\ result' = NoResult
    /\ UNCHANGED <<tags, nextID, activityList>>

(***************************************************************************)
(* The updates of the tag repository.                                      *)
(***************************************************************************)
\* the outcome of a statement: the table it leaves and whether it failed; a
\* failed statement (the store's error, or a violated unique index) changes
\* nothing
Exec(name, args, dbErr, after) ==
    LET failed == dbErr \/ ~UniqueSlugs(after)
    IN  /\ tags' = IF failed THEN tags ELSE after
        /\ op' = [name |-> name, args |-> args, siteErr |-> FALSE]
        /\ result' = [NoResult EXCEPT !.err = failed]
        /\ UNCHANGED <<requiredTag, activityList>>

AddTagList ==
    \E tagList \in NewTagLists, dbErr \in BOOLEAN :
        /\ nextID + Len(tagList) - 1 <= MaxID
        /\ nextID' = nextID + Len(tagList)
        /\ Exec("AddTagList", <<>>, dbErr,
                InsertRows(tags, AddTagListRows(tagList, nextID)))

RemoveTag ==
    \E tagID \in KnownIDs, dbErr \in BOOLEAN :
        /\ Exec("RemoveTag", <<tagID>>, dbErr, RemoveTagUpdate(tags, tagID))
        /\ UNCHANGED nextID

\* the rows callers write back: nothing at all, or the status restored to
\* available with the recommend flag set in the bean
TagUpdates ==
    {ZeroTag, [ZeroTag EXCEPT !.status = TagStatusAvailable, !.recommend = TRUE]}

UpdateTag ==
    \E tagID \in KnownIDs, fields \in TagUpdates, dbErr \in BOOLEAN :
        LET tag == [fields EXCEPT !.id = tagID]
        IN  \* xorm refuses an Update that has no column to write
            /\ Exec("UpdateTag", <<>>, dbErr \/ UpdateCols(tag, {}, {}) = {},
                    UpdateTagUpdate(tags, tag))
            /\ UNCHANGED nextID

UpdateTagQuestionCount ==
    \E tagID \in KnownIDs, questionCount \in 0..MaxCount, dbErr \in BOOLEAN :
        /\ Exec("UpdateTagQuestionCount", <<tagID, questionCount>>, dbErr,
                UpdateTagQuestionCountUpdate(tags, tagID, questionCount))
        /\ UNCHANGED nextID

\* a synonym is linked to an existing tag, or unlinked (0, "")
UpdateTagSynonym ==
    \E tagSlugNameList \in {{AFoo}, {AFoo, Go}},
       main \in {[id |-> 0, slugName |-> <<>>]} \cup
                {[id |-> tags[i].id, slugName |-> tags[i].slugName] :
                    i \in {j \in DOMAIN tags : tags[j].slugName = Foo}},
       dbErr \in BOOLEAN :
        /\ Exec("UpdateTagSynonym", <<>>, dbErr,
                UpdateTagSynonymUpdate(tags, tagSlugNameList, main.id, main.slugName))
        /\ UNCHANGED nextID

UpdateTagsAttribute ==
    \E slugs \in {{Foo, Go}},
       attribute \in {"recommend", "reserved", "status"},
       value \in BOOLEAN,
       dbErr \in BOOLEAN :
        \* any other attribute returns before the statement is issued
        /\ Exec("UpdateTagsAttribute", <<>>,
                dbErr /\ attribute \in {"recommend", "reserved"},
                UpdateTagsAttributeUpdate(tags, slugs, attribute, value))
        /\ UNCHANGED nextID

(***************************************************************************)
(* The reads of the tag repository.                                        *)
(***************************************************************************)
\* what can go wrong in a read: the store fails, or the site configuration
\* cannot be read
Failures == {"none", "store", "site"}

\* a listing: the rows found (none when the store fails), then the masking
ReturnList(name, args, fail, found) ==
    \E rows \in (IF fail = "store" THEN {<<>>} ELSE found) :
        /\ result' = [rows  |-> MaskRecommend(rows,
                                    tagRecommendStatus(fail = "site", requiredTag)),
                      exist |-> FALSE, total |-> 0, err |-> fail = "store"]
        /\ op' = [name |-> name, args |-> args, siteErr |-> fail = "site"]
        /\ UNCHANGED <<tags, nextID, requiredTag, activityList>>

\* a single-row Get: nil when the store fails; otherwise the bean, filled
\* when a row exists and left at its zero value when none does, then masked
ReturnOne(name, args, fail, found) ==
    \E rows \in (IF fail = "store" THEN {<<>>} ELSE found) :
        LET tagInfo == IF rows = <<>> THEN ZeroTag ELSE rows[1]
        IN  /\ result' =
                 IF fail = "store" THEN [NoResult EXCEPT !.err = TRUE]
                 ELSE [rows  |-> MaskRecommend(<<tagInfo>>,
                                     tagRecommendStatus(fail = "site", requiredTag)),
                       exist |-> rows # <<>>, total |-> 0, err |-> FALSE]
            /\ op' = [name |-> name, args |-> args, siteErr |-> fail = "site"]
            /\ UNCHANGED <<tags, nextID, requiredTag, activityList>>

GetTagListByIDs ==
    \E ids \in {{i} : i \in KnownIDs} \cup {KnownIDs}, fail \in Failures :
        ReturnList("GetTagListByIDs", <<ids>>, fail, GetTagListByIDsQuery(tags, ids))

GetTagBySlugName ==
    \E slugName \in SlugNames, fail \in Failures :
        ReturnOne("GetTagBySlugName", <<slugName>>, fail,
                  GetTagBySlugNameQuery(tags, slugName))

GetTagByID ==
    \E tagID \in KnownIDs, fail \in Failures :
        ReturnOne("GetTagByID", <<tagID>>, fail, GetTagByIDQuery(tags, tagID))

\* what callers type into the tag search box, and the limits they ask for
SearchNames == {<<>>, <<"g">>}
Limits == {1, 5}

GetTagListByName ==
    \E name \in SearchNames, limit \in Limits, hasReserved \in BOOLEAN,
       fail \in Failures :
        ReturnList("GetTagListByName", <<name, limit, hasReserved>>, fail,
                   GetTagListByNameQuery(tags, name, limit, hasReserved))

GetRecommendTagList ==
    \E fail \in Failures :
        ReturnList("GetRecommendTagList", <<>>, fail, GetRecommendTagListQuery(tags))

GetReservedTagList ==
    \E fail \in Failures :
        ReturnList("GetReservedTagList", <<>>, fail, GetReservedTagListQuery(tags))

GetTagListByNames ==
    \E names \in {{Foo}, SlugNames}, fail \in Failures :
        ReturnList("GetTagListByNames", <<>>, fail, GetTagListByNamesQuery(tags, names))

\* the filters callers pass to GetTagList and GetTagPage
FooFilter == [ZeroTag EXCEPT !.slugName = Foo]
TagFilters == {ZeroTag, FooFilter, [ZeroTag EXCEPT !.displayName = Fo, !.recommend = TRUE]}

GetTagList ==
    \E tag \in TagFilters, fail \in Failures :
        ReturnList("GetTagList", <<tag>>, fail, GetTagListQuery(tags, tag))

QueryConds == {"popular", "name", "newest", ""}
\* <<page, pageSize>>: the defaults, and the first and second page of size 1
Paging == {<<0, 0>>, <<1, 1>>, <<2, 1>>}

GetTagPage ==
    \E paging \in Paging, tag \in {ZeroTag, FooFilter},
       queryCond \in QueryConds, fail \in Failures :
        \E rows \in (IF fail = "store" THEN {<<>>}
                     ELSE GetTagPageQuery(tags, paging[1], paging[2], tag, queryCond)) :
            /\ result' = [rows  |-> MaskRecommend(rows,
                                        tagRecommendStatus(fail = "site", requiredTag)),
                          exist |-> FALSE,
                          total |-> IF fail = "store" THEN 0 ELSE GetTagPageTotal(tags, tag),
                          err   |-> fail = "store"]
            /\ op' = [name |-> "GetTagPage", args |-> <<tag>>, siteErr |-> fail = "site"]
            /\ UNCHANGED <<tags, nextID, requiredTag, activityList>>

(***************************************************************************)
(* Specifications of the tag repository.                                   *)
(***************************************************************************)
NoOp == [name |-> "", args |-> <<>>, siteErr |-> FALSE]

\* after construction: an empty table, the setting off
InitTag ==
    /\ tags = <<>>
    /\ nextID = 1
    /\ requiredTag = FALSE
    /\ activityList = <<>>
    /\ op = NoOp
    /\ result = NoResult

NextCount == AddTagList \/ UpdateTagQuestionCount \/ UpdateTagsAttribute

SpecCount == InitTag /\ [][NextCount]_vars

NextRemove ==
    \/ AddTagList \/ RemoveTag \/ UpdateTag
    \/ GetTagListByIDs \/ GetTagBySlugName \/ GetTagByID \/ GetTagListByName
    \/ GetTagList \/ GetTagPage

SpecRemove == InitTag /\ [][NextRemove]_vars

NextMask ==
    \/ AddTagList \/ SetSiteWrite
    \/ GetTagListByIDs \/ GetTagBySlugName \/ GetTagByID \/ GetTagListByName
    \/ GetRecommendTagList \/ GetReservedTagList \/ GetTagListByNames
    \/ GetTagList \/ GetTagPage

SpecMask == InitTag /\ [][NextMask]_vars

NextPage == AddTagList \/ RemoveTag \/ UpdateTagSynonym \/ GetTagPage

SpecPage == InitTag /\ [][NextPage]_vars

(***************************************************************************)
(* The tag search on a populated table: the table is drawn from a family   *)
(* of seven tags whose slug names are not in id order.                     *)
(***************************************************************************)
SearchSlugs == <<Go, Foo, <<"a">>, <<"g", "a">>, <<"x">>, <<"b">>, <<"g">>>>

SearchTable(recommended, reserved, deleted) ==
    [i \in DOMAIN SearchSlugs |->
        [ZeroTag EXCEPT !.id = i, !.slugName = SearchSlugs[i],
                        !.displayName = SearchSlugs[i],
                        !.recommend = (i \in recommended),
                        !.reserved = (i \in reserved),
                        !.status = IF i \in deleted THEN TagStatusDeleted
                                   ELSE TagStatusAvailable,
                        !.createdAt = i]]

InitName ==
    /\ \E recommended \in {S \in SUBSET DOMAIN SearchSlugs :
                              Cardinality(S) >= Len(SearchSlugs) - 1}
                          \cup {{}, {1}, {4, 7}, {1, 2, 3}},
          reserved \in {{}, {1}, {3, 4}},
          deleted \in {{}, {2}, {1, 5}} :
            tags = SearchTable(recommended, reserved, deleted)
    /\ nextID = Len(SearchSlugs) + 1
    /\ requiredTag \in BOOLEAN
    /\ activityList = <<>>
    /\ op = NoOp
    /\ result = NoResult

NextName == GetTagListByName \/ SetSiteWrite

SpecName == InitName /\ [][NextName]_vars

(***************************************************************************)
(* The activity service: the timeline of an object.                        *)
(*                                                                         *)
(* An activity type key is a sequence of tokens, the separator "." being a *)
(* token: "answer.voted_up" is <<"answer", ".", "voted_up">>.  Of a        *)
(* timeline item the model keeps the fields the code computes; the fields  *)
(* it copies from the activity row (revision id, times, cancelled) are     *)
(* left out.                                                               *)
(***************************************************************************)
\* strings.Cut(s, sep): s around the first sep; s and "" when there is none
Cut(s, sep) ==
    LET at == {i \in DOMAIN s : s[i] = sep}
    IN  IF at = {} THEN [before |-> s, after |-> <<>>, found |-> FALSE]
        ELSE LET i == CHOOSE j \in at : \A k \in at : j <= k
             IN  [before |-> SubSeq(s, 1, i - 1),
                  after  |-> SubSeq(s, i + 1, Len(s)),
                  found  |-> TRUE]

\* a formatActivity that hides the labels of the votes cast, not received
formatActivityHidesVotes(activityType) ==
    IF \/ activityType = <<"vote_up">>
       \/ activityType = <<"vote_down">>
       \/ activityType = <<"accepted">>
    THEN [isHidden |-> TRUE, formattedActivityType |-> <<>>]
    ELSE [isHidden |-> FALSE, formattedActivityType |-> activityType]

formatActivity(activityType) ==
    IF \/ activityType = <<"voted_up">>
       \/ activityType = <<"voted_down">>
       \/ activityType = <<"accepted">>
    THEN [isHidden |-> TRUE, formattedActivityType |-> <<>>]
    ELSE IF activityType = <<"vote_up">>
    THEN [isHidden |-> FALSE, formattedActivityType |-> <<"upvote">>]
    ELSE IF activityType = <<"vote_down">>
    THEN [isHidden |-> FALSE, formattedActivityType |-> <<"downvote">>]
    ELSE [isHidden |-> FALSE, formattedActivityType |-> activityType]

CommentObjectType == <<"comment">>

Users == {1, 2}

\* what GetUserBasicInfoByID gives for a user that exists
UserBasicInfo(userID) ==
    [username |-> <<"user", userID>>, displayName |-> <<"User", userID>>]

\* what GetComment gives
ParsedText == <<"parsed">>

\* what GetInfo gives for the object of the timeline
TimelineObject ==
    [title |-> <<"title">>, objectType |-> <<"question">>, questionID |-> 1, answerID |-> 0]

\* the activities other subsystems record: the type key config.ID2KeyMapping
\* gives for the activity type and the acting user
ActivityKinds ==
    {[key |-> <<"question", ".", "asked">>, userID |-> 1],
     [key |-> <<"answer", ".", "accepted">>, userID |-> 1],
     [key |-> <<"question", ".", "voted_up">>, userID |-> 2],
     [key |-> <<"answer", ".", "voted_down">>, userID |-> 1],
     [key |-> <<"question", ".", "vote_up">>, userID |-> 2],
     [key |-> <<"answer", ".", "vote_down">>, userID |-> 1],
     [key |-> <<"comment", ".", "commented">>, userID |-> 2],
     [key |-> <<"rank", ".", "answer", ".", "accepted">>, userID |-> 2],
     [key |-> <<"accepted">>, userID |-> 1]}

\* a loop that drops the entry of a user that does not exist
RECURSIVE TimelineLoopSkipsMissing(_, _, _, _, _)
TimelineLoopSkipsMissing(acts, i, lookup, commentErr, timeline) ==
    IF i > Len(acts) THEN [err |-> FALSE, timeline |-> timeline]
    ELSE
      LET act  == acts[i]
          cut  == Cut(act.key, ".")
          fmt  == formatActivity(cut.after)
          item == [activityID      |-> i,
                   objectType      |-> cut.before,
                   activityType    |-> fmt.formattedActivityType,
                   username        |-> UserBasicInfo(act.userID).username,
                   userDisplayName |-> UserBasicInfo(act.userID).displayName,
                   comment         |-> IF cut.before = CommentObjectType /\ ~commentErr
                                       THEN ParsedText ELSE <<>>]
      IN  IF fmt.isHidden \/ lookup[act.userID] = "missing"
          THEN TimelineLoopSkipsMissing(acts, i + 1, lookup, commentErr, timeline)
          ELSE IF lookup[act.userID] = "error"
          THEN [err |-> TRUE, timeline |-> <<>>]
          ELSE TimelineLoopSkipsMissing(acts, i + 1, lookup, commentErr,
                                        Append(timeline, item))

\* one round of the loop of GetObjectTimeline over the activities from the
\* i-th on: the timeline built, or the error that ends the call
RECURSIVE TimelineLoop(_, _, _, _, _)
TimelineLoop(acts, i, lookup, commentErr, timeline) ==
    IF i > Len(acts) THEN [err |-> FALSE, timeline |-> timeline]
    ELSE
      LET act  == acts[i]
          cut  == Cut(act.key, ".")
          fmt  == formatActivity(cut.after)
          item == [activityID      |-> i,
                   objectType      |-> cut.before,
                   activityType    |-> fmt.formattedActivityType,
                   username        |-> IF lookup[act.userID] = "found"
                                       THEN UserBasicInfo(act.userID).username ELSE <<>>,
                   userDisplayName |-> IF lookup[act.userID] = "found"
                                       THEN UserBasicInfo(act.userID).displayName ELSE <<>>,
                   comment         |-> IF cut.before = CommentObjectType /\ ~commentErr
                                       THEN ParsedText ELSE <<>>]
      IN  IF fmt.isHidden
          THEN TimelineLoop(acts, i + 1, lookup, commentErr, timeline)
          ELSE IF lookup[act.userID] = "error"
          THEN [err |-> TRUE, timeline |-> <<>>]
          ELSE TimelineLoop(acts, i + 1, lookup, commentErr, Append(timeline, item))

NilResp == [nil |-> TRUE, err |-> TRUE, objectInfo |-> <<>>, timeline |-> <<>>]

\* a GetObjectTimeline that gives up when the comment cannot be loaded
GetObjectTimelineRespCommentFails(acts, lookup, fail) ==
    IF fail \in {"object", "activity"} THEN NilResp
    ELSE LET loop == TimelineLoop(acts, 1, lookup, FALSE, <<>>)
         IN  IF loop.err \/ (fail = "comment" /\ \E i \in DOMAIN loop.timeline :
                                 loop.timeline[i].objectType = CommentObjectType)
             THEN NilResp
             ELSE [nil |-> FALSE, err |-> FALSE, objectInfo |-> TimelineObject,
                   timeline |-> loop.timeline]

\* GetObjectTimeline: fail names the collaborator that fails, if any
GetObjectTimelineResp(acts, lookup, fail) ==
    IF fail = "object" THEN NilResp
    ELSE IF fail = "activity" THEN NilResp
    ELSE LET loop == TimelineLoop(acts, 1, lookup, fail = "comment", <<>>)
         IN  IF loop.err THEN NilResp
             ELSE [nil |-> FALSE, err |-> FALSE, objectInfo |-> TimelineObject,
                   timeline |-> loop.timeline]

\* another subsystem records an activity on the object
RecordActivity ==
    \E act \in ActivityKinds :
        /\ Len(activityList) < MaxActs
        /\ activityList' = Append(activityList, act)
        /\ op' = [name |-> "RecordActivity", args |-> <<>>, siteErr |-> FALSE]
        /\ result' = NoResult
        /\ UNCHANGED <<tags, nextID, requiredTag>>

\* what the collaborators do during a call: the object or the activity list
\* cannot be loaded, or both load and every user is found, missing or fails
\* to load, and the comment loads or not
TimelineOutcomes ==
    {[fail |-> f, lookup |-> [u \in Users |-> "found"]] : f \in {"object", "activity"}}
    \cup {[fail |-> f, lookup |-> l] :
            f \in {"none", "comment"}, l \in [Users -> {"found", "missing", "error"}]}

GetObjectTimeline ==
    \E outcome \in TimelineOutcomes :
        /\ result' = GetObjectTimelineResp(activityList, outcome.lookup, outcome.fail)
        /\ op' = [name |-> "GetObjectTimeline", args |-> <<outcome.lookup, outcome.fail>>,
                  siteErr |-> FALSE]
        /\ UNCHANGED <<tags, nextID, requiredTag, activityList>>

InitActivity == InitTag

NextTimeline == RecordActivity \/ GetObjectTimeline

SpecTimeline == InitActivity /\ [][NextTimeline]_vars

(***************************************************************************)
(* The activity service: the detail of two revisions.                      *)
(***************************************************************************)
QuestionObjectType == <<"question">>
AnswerObjectType == <<"answer">>
TagObjectType == <<"tag">>

\* the object types GetInfo may report: the three the code decodes, and two
\* it does not
ObjectTypes ==
    {QuestionObjectType, AnswerObjectType, TagObjectType, CommentObjectType, <<>>}

\* what a revision's content decodes to when json.Unmarshal succeeds
Content ==
    [title |-> <<"t">>, originalText |-> <<"text">>, tags |-> <<Go, Foo>>, slugName |-> Go]

ObjectTitle == <<"question", "title">>

EmptyDetail == [title |-> <<>>, originalText |-> <<>>, tags |-> <<>>]

\* what the collaborators give for one revision id: the revision cannot be
\* loaded, its object cannot be loaded, or both load and the object has a
\* type and the content decodes or not
Sides ==
    {[revision |-> "error", object |-> "ok", objectType |-> <<>>, decodes |-> FALSE],
     [revision |-> "ok", object |-> "error", objectType |-> <<>>, decodes |-> FALSE]}
    \cup {[revision |-> "ok", object |-> "ok", objectType |-> ty, decodes |-> d] :
            ty \in ObjectTypes, d \in BOOLEAN}

\* a getOneObjectDetail that reports a decoding failure as an error
getOneObjectDetailDecodeErr(side) ==
    IF side.revision = "error" \/ side.object = "error" \/ ~side.decodes
    THEN [err |-> TRUE, nil |-> TRUE, detail |-> EmptyDetail]
    ELSE [err |-> FALSE, nil |-> FALSE, detail |->
            [title |-> Content.title, originalText |-> Content.originalText,
             tags |-> Content.tags]]

\* getOneObjectDetail
getOneObjectDetail(side) ==
    IF side.revision = "error" THEN [err |-> TRUE, nil |-> TRUE, detail |-> EmptyDetail]
    ELSE IF side.object = "error" THEN [err |-> TRUE, nil |-> TRUE, detail |-> EmptyDetail]
    ELSE [err |-> FALSE, nil |-> FALSE, detail |->
            IF side.objectType = QuestionObjectType
            THEN IF ~side.decodes THEN EmptyDetail
                 ELSE [title |-> Content.title, originalText |-> Content.originalText,
                       tags |-> Content.tags]
            ELSE IF side.objectType = AnswerObjectType
            THEN IF ~side.decodes THEN EmptyDetail
                 ELSE [title |-> ObjectTitle, originalText |-> Content.originalText,
                       tags |-> <<>>]
            ELSE IF side.objectType = TagObjectType
            THEN IF ~side.decodes THEN EmptyDetail
                 ELSE [title |-> Content.slugName, originalText |-> Content.originalText,
                       tags |-> <<>>]
            ELSE EmptyDetail]

NilDetailResp == [nil |-> TRUE, err |-> TRUE, oldRevision |-> EmptyDetail, newRevision |-> EmptyDetail]

GetObjectTimelineDetailResp(old, new) ==
    LET o == getOneObjectDetail(old)
        n == getOneObjectDetail(new)
    IN  IF o.err THEN NilDetailResp
        ELSE IF n.err THEN NilDetailResp
        ELSE [nil |-> FALSE, err |-> FALSE, oldRevision |-> o.detail, newRevision |-> n.detail]

GetObjectTimelineDetail ==
    \E old \in Sides, new \in Sides :
        /\ result' = GetObjectTimelineDetailResp(old, new)
        /\ op' = [name |-> "GetObjectTimelineDetail", args |-> <<old, new>>, siteErr |-> FALSE]
        /\ UNCHANGED <<tags, nextID, requiredTag, activityList>>

SpecDetail == InitActivity /\ [][GetObjectTimelineDetail]_vars

(***************************************************************************)
(* Properties of the activity service.                                     *)
(***************************************************************************)
\* the label of a type key: what follows its first "."
LabelOf(key) ==
    IF \A i \in DOMAIN key : key[i] # "." THEN <<>>
    ELSE LET first == CHOOSE i \in DOMAIN key :
                        key[i] = "." /\ \A j \in 1..(i - 1) : key[j] # "."
         IN  [k \in 1..(Len(key) - first) |-> key[first + k]]

HiddenLabels == {<<"voted_up">>, <<"voted_down">>, <<"accepted">>}

\* the positions of the stored activities the timeline shows
Shown(acts) == {i \in DOMAIN acts : LabelOf(acts[i].key) \notin HiddenLabels}

\* the positions of S in increasing order
RECURSIVE Increasing(_)
Increasing(S) ==
    IF S = {} THEN <<>>
    ELSE LET m == CHOOSE x \in S : \A y \in S : x <= y
         IN  <<m>> \o Increasing(S \ {m})

TimelineCalled == op.name = "GetObjectTimeline"
Lookup == op.args[1]
Fail == op.args[2]

\* a user lookup fails for an activity the timeline shows
UserLookupFails ==
    \E i \in Shown(activityList) : Lookup[activityList[i].userID] = "error"

\* C1, as stated: GetObjectTimeline fails only when the object or the
\* activity list cannot be loaded; every failure further on, a failing user
\* lookup included, leaves the call successful.
C1_OnlyIdentityFailuresPropagate ==
    TimelineCalled => (result.err <=> Fail \in {"object", "activity"})

\* C1, amended: GetObjectTimeline fails exactly when the object, the activity
\* list, or the user of an activity it shows cannot be loaded; a user that does
\* not exist and a comment that cannot be loaded leave the call successful,
\* with the names, respectively the comment, of the entry empty.
C1_FailurePolicy ==
    TimelineCalled =>
        /\ result.err <=> (Fail \in {"object", "activity"} \/ UserLookupFails)
        /\ result.nil <=> result.err
        /\ ~result.err =>
             \A k \in DOMAIN result.timeline :
                LET item == result.timeline[k]
                    act  == activityList[item.activityID]
                IN  /\ Lookup[act.userID] = "missing" =>
                          item.username = <<>> /\ item.userDisplayName = <<>>
                    /\ Fail = "comment" => item.comment = <<>>

\* a call in which a user is missing and the comment fails to load, and that
\* succeeds with the entry of a comment activity left without names and text
C1_Witness ==
    /\ TimelineCalled /\ Fail = "comment" /\ ~result.err
    /\ \E k \in DOMAIN result.timeline :
          /\ result.timeline[k].objectType = CommentObjectType
          /\ Lookup[activityList[result.timeline[k].activityID].userID] = "missing"
          /\ result.timeline[k].comment = <<>>
          /\ result.timeline[k].username = <<>>

\* C5: the timeline GetObjectTimeline returns has no entry for an activity
\* whose label is voted_up, voted_down or accepted, and has the other
\* activities in their stored order.
C5_HiddenActivitiesExcluded ==
    (TimelineCalled /\ ~result.nil) =>
        [k \in DOMAIN result.timeline |-> result.timeline[k].activityID]
            = Increasing(Shown(activityList))

\* a timeline of two entries, returned for three activities of which the
\* second is hidden
C5_Witness ==
    /\ TimelineCalled /\ ~result.nil
    /\ Len(activityList) = 3
    /\ LabelOf(activityList[2].key) \in HiddenLabels
    /\ Len(result.timeline) = 2
    /\ result.timeline[1].activityID = 1
    /\ result.timeline[2].activityID = 3

\* C8: when the object and the activity list load and no user lookup fails,
\* an activity the timeline shows whose user does not exist has its entry,
\* with username and display name empty.
C8_MissingUserKeepsEntry ==
    (TimelineCalled /\ Fail \notin {"object", "activity"} /\ ~UserLookupFails) =>
        /\ ~result.nil
        /\ \A i \in Shown(activityList) :
              Lookup[activityList[i].userID] = "missing" =>
                 \E k \in DOMAIN result.timeline :
                    /\ result.timeline[k].activityID = i
                    /\ result.timeline[k].username = <<>>
                    /\ result.timeline[k].userDisplayName = <<>>

\* a timeline with the entry of a missing user beside the entry of a user
\* that exists
C8_Witness ==
    /\ TimelineCalled /\ ~result.nil
    /\ \E k, m \in DOMAIN result.timeline :
          /\ Lookup[activityList[result.timeline[k].activityID].userID] = "missing"
          /\ result.timeline[k].username = <<>>
          /\ result.timeline[m].username # <<>>

DetailCalled == op.name = "GetObjectTimelineDetail"

Loads(side) == side.revision = "ok" /\ side.object = "ok"

\* the detail of the side is empty when the code cannot decode it
Undecodable(side) ==
    \/ side.objectType \notin {QuestionObjectType, AnswerObjectType, TagObjectType}
    \/ ~side.decodes

\* C10: GetObjectTimelineDetail succeeds when both revisions and their objects
\* load, with an empty detail for a revision whose object has an unknown type
\* or whose content does not decode; it fails, with no response, when a
\* revision or its object cannot be loaded.
C10_DetailDegrades ==
    DetailCalled =>
        LET old == op.args[1]
            new == op.args[2]
        IN  /\ (Loads(old) /\ Loads(new)) =>
                  /\ ~result.err /\ ~result.nil
                  /\ Undecodable(old) => result.oldRevision = EmptyDetail
                  /\ Undecodable(new) => result.newRevision = EmptyDetail
            /\ ~(Loads(old) /\ Loads(new)) => result.err /\ result.nil

\* a successful call whose old revision has an object of unknown type and
\* whose new revision is a question that does not decode
C10_Witness ==
    /\ DetailCalled /\ ~result.nil
    /\ op.args[1].objectType = CommentObjectType
    /\ op.args[2].objectType = QuestionObjectType /\ ~op.args[2].decodes
    /\ result.oldRevision = EmptyDetail /\ result.newRevision = EmptyDetail

(***************************************************************************)
(* Properties of the tag repository.                                       *)
(***************************************************************************)
\* the rows a read handed back: the row of a Get only when it reports one
Returned ==
    IF op.name \in {"GetTagByID", "GetTagBySlugName"}
    THEN IF result.exist THEN {result.rows[1]} ELSE {}
    ELSE {result.rows[i] : i \in DOMAIN result.rows}

SearchCalled == op.name = "GetTagListByName" /\ ~result.err
SearchName == op.args[1]
SearchLimit == op.args[2]
SearchHasReserved == op.args[3]

\* C2: GetTagListByName with a prefix returns the available tags whose slug
\* name starts with the prefix, up to limit, whatever their recommend flag;
\* hasReserved = false only removes the reserved ones.
C2_PrefixSearchIgnoresRecommend ==
    (SearchCalled /\ SearchName # <<>>) =>
        LET matching == {r \in Rows(tags) :
                            /\ r.status = TagStatusAvailable
                            /\ HasPrefix(r.slugName, SearchName)
                            /\ SearchHasReserved \/ ~r.reserved}
        IN  /\ {r.id : r \in Returned} \subseteq {r.id : r \in matching}
            /\ Len(result.rows) = IF Cardinality(matching) < SearchLimit
                                  THEN Cardinality(matching) ELSE SearchLimit

\* C7: GetTagListByName("", 5, false) returns only tags stored with
\* recommend = true, reserved = false and status available, at most 5 of
\* them, in ascending order of slug name.
C7_EmptyNameListsRecommended ==
    (SearchCalled /\ SearchName = <<>> /\ SearchLimit = 5 /\ ~SearchHasReserved) =>
        /\ \A r \in Returned :
              /\ r.id \in DOMAIN tags
              /\ tags[r.id].recommend /\ ~tags[r.id].reserved
              /\ tags[r.id].status = TagStatusAvailable
        /\ Len(result.rows) <= 5
        /\ \A k \in 1..(Len(result.rows) - 1) :
              StrLess(result.rows[k].slugName, result.rows[k + 1].slugName)

\* five tags returned out of more than five stored that qualify: the limit
\* cuts the listing
C7_Witness ==
    /\ SearchCalled /\ SearchName = <<>> /\ SearchLimit = 5 /\ ~SearchHasReserved
    /\ Len(result.rows) = 5
    /\ Cardinality({r \in Rows(tags) : r.recommend /\ ~r.reserved
                                        /\ r.status = TagStatusAvailable}) > 5

AvailableReads ==
    {"GetTagByID", "GetTagBySlugName", "GetTagListByIDs", "GetTagList",
     "GetTagListByName", "GetTagPage"}

\* no read restricted to available status hands back a deleted tag
C3_DeletedNeverReturned ==
    op.name \in AvailableReads =>
        \A r \in Returned : r.id \in DOMAIN tags /\ tags[r.id].status # TagStatusDeleted

\* every read restricted to available status, run on table t, leaves out tagID
AbsentFromReads(t, tagID) ==
    /\ GetTagByIDQuery(t, tagID) = {<<>>}
    /\ GetTagBySlugNameQuery(t, t[tagID].slugName) = {<<>>}
    /\ \A ids \in SUBSET DOMAIN t :
          \A rows \in GetTagListByIDsQuery(t, ids) :
             \A k \in DOMAIN rows : rows[k].id # tagID
    /\ \A tag \in TagFilters :
          \A rows \in GetTagListQuery(t, tag) :
             \A k \in DOMAIN rows : rows[k].id # tagID
    /\ \A name \in SearchNames, limit \in Limits, hasReserved \in BOOLEAN :
          \A rows \in GetTagListByNameQuery(t, name, limit, hasReserved) :
             \A k \in DOMAIN rows : rows[k].id # tagID
    /\ \A paging \in Paging, tag \in {ZeroTag, FooFilter}, queryCond \in QueryConds :
          \A rows \in GetTagPageQuery(t, paging[1], paging[2], tag, queryCond) :
             \A k \in DOMAIN rows : rows[k].id # tagID

\* a successful RemoveTag of an existing available tag leaves its row in the
\* table with status deleted and nothing else changed, and out of every read
C3_SoftDelete ==
    (/\ op'.name = "RemoveTag" /\ ~result'.err
     /\ op'.args[1] \in DOMAIN tags
     /\ tags[op'.args[1]].status = TagStatusAvailable) =>
        /\ tags' = [tags EXCEPT ![op'.args[1]].status = TagStatusDeleted]
        /\ AbsentFromReads(tags', op'.args[1])

\* C3: after RemoveTag(id) on an existing available tag, every read
\* restricted to available status reports the tag absent, and its row is
\* still stored, with status deleted and its other columns unchanged.
C3_RemovedTagAbsent ==
    [][C3_SoftDelete]_vars /\ []C3_DeletedNeverReturned

\* GetTagByID of a removed tag reports no row, and the row is still stored
\* with its slug name
C3_Witness ==
    /\ op.name = "GetTagByID" /\ ~result.err /\ ~result.exist
    /\ op.args[1] \in DOMAIN tags
    /\ tags[op.args[1]].status = TagStatusDeleted
    /\ tags[op.args[1]].slugName = Foo

TagReads ==
    AvailableReads \cup {"GetRecommendTagList", "GetReservedTagList", "GetTagListByNames"}

\* with the setting off, every row a read returns has recommend = false
C4_Masked ==
    (op.name \in TagReads /\ ~requiredTag) =>
        \A i \in DOMAIN result.rows : ~result.rows[i].recommend

\* with the setting on (and read), every row a read returns is the stored row
C4_StoredWhenRequired ==
    (op.name \in TagReads /\ requiredTag /\ ~op.siteErr) =>
        \A r \in Returned : r.id \in DOMAIN tags /\ r = tags[r.id]

\* a read changes neither the table nor the setting
C4_ReadOnly ==
    op'.name \in TagReads => tags' = tags /\ requiredTag' = requiredTag

\* C4: with "tag required" off every tag read returns recommend = false on
\* every row; the stored value is untouched, and is what the read returns once
\* the setting is on.
C4_RecommendMaskedAtRead ==
    []C4_Masked /\ []C4_StoredWhenRequired /\ [][C4_ReadOnly]_vars

\* with the setting off, a read returns recommend = false for a tag stored
\* with recommend = true
C4_Witness ==
    /\ op.name \in TagReads /\ ~requiredTag
    /\ \E r \in Returned : r.id \in DOMAIN tags /\ tags[r.id].recommend /\ ~r.recommend

C9_ZeroCountWritten ==
    [][(op'.name = "UpdateTagQuestionCount" /\ ~result'.err /\ op'.args[2] = 0) =>
          tags' = [i \in DOMAIN tags |->
                     IF i = op'.args[1] THEN [tags[i] EXCEPT !.questionCount = 0]
                     ELSE tags[i]]]_vars

\* UpdateTagQuestionCount(id, 0) has run on a tag with other columns set,
\* beside a tag that keeps a count that is not 0
C9_Witness ==
    /\ op.name = "UpdateTagQuestionCount" /\ ~result.err /\ op.args[2] = 0
    /\ op.args[1] \in DOMAIN tags
    /\ tags[op.args[1]].questionCount = 0
    /\ tags[op.args[1]].reserved
    /\ \E i \in DOMAIN tags : tags[i].questionCount # 0

====
